---- MODULE Spec2Model ----
(***************************************************************************)
(* Review workflow of the material-review backend.                         *)
(*                                                                         *)
(*   services/workflow.py        state registry, SME policy, transition    *)
(*                               table, ReviewStateMachine                 *)
(*   api/utils.py                determine_status_after_step used by the   *)
(*                               step-update handlers                      *)
(*   api/reviews.py              create / update / cancel endpoints        *)
(*   api/assignments.py          create_review_assignments                 *)
(*   services/review_service.py  ReviewService.update_review_step and its  *)
(*                               gates and side effects                    *)
(*                                                                         *)
(* Python's None is the string "None"; a key that is not in a dict is the  *)
(* string "ABSENT".                                                        *)
(***************************************************************************)
EXTENDS Integers, Sequences, FiniteSets, TLC

VARIABLES
    reviews,      \* material_reviews table: review_id -> row
    assignments,  \* review_assignments table: <<review_id, type>> -> row
    creating,     \* per material: create requests past the active-review check
    last,         \* the request that was served last
    call,         \* inputs of a ReviewStateMachine evaluation
    result,       \* what the evaluation returned
    review_checklist,  \* review_checklist table: rows in insertion order
    inflight      \* per request slot: a step update that has read its review

vars == <<reviews, assignments, creating, last, call, result, review_checklist, inflight>>

None == "None"
Absent == "ABSENT"

\* Python truthiness of an optional string
Truthy(v) == v \notin {None, Absent, ""}

\* dict.get(key): a missing key reads as None
DictGet(d, k) == IF d[k] = Absent THEN None ELSE d[k]

(***************************************************************************)
(* services/workflow.py                                                    *)
(***************************************************************************)
ReviewState ==
    {"draft", "pending_assignment", "pending_sme", "pending_decision",
     "approved", "rejected", "cancelled"}

STATES ==
    [s \in ReviewState |->
        CASE s = "draft"              -> [step |-> "general_info",      terminal |-> FALSE]
          [] s = "pending_assignment" -> [step |-> "assignment",        terminal |-> FALSE]
          [] s = "pending_sme"        -> [step |-> "sme_investigation", terminal |-> FALSE]
          [] s = "pending_decision"   -> [step |-> "final_decision",    terminal |-> FALSE]
          [] s = "approved"           -> [step |-> "final_decision",    terminal |-> TRUE]
          [] s = "rejected"           -> [step |-> "final_decision",    terminal |-> TRUE]
          [] s = "cancelled"          -> [step |-> "general_info",      terminal |-> TRUE]]

TERMINAL_STATES == {s \in ReviewState : STATES[s].terminal}

Action ==
    {"complete_checklist", "assign", "submit_sme_review", "approve", "reject", "cancel"}

\* A lookup_options config: None, or a dict that may hold requires_sme
NoConfig == [is_none |-> TRUE, has_flag |-> FALSE, requires_sme |-> FALSE]
Configs ==
    {NoConfig,
     [is_none |-> FALSE, has_flag |-> FALSE, requires_sme |-> FALSE],
     [is_none |-> FALSE, has_flag |-> TRUE,  requires_sme |-> TRUE],
     [is_none |-> FALSE, has_flag |-> TRUE,  requires_sme |-> FALSE]}

\* config.get("requires_sme", False)
ConfigRequiresSme(config) == IF config.has_flag THEN config.requires_sme ELSE FALSE

\* is_sme_required that reads the config before it looks at proposed_action
is_sme_required_config_first(proposed_action, config) ==
    IF ~config.is_none THEN ConfigRequiresSme(config)
    ELSE IF ~Truthy(proposed_action) THEN FALSE
    ELSE TRUE

is_sme_required(proposed_action, config) ==
    IF ~Truthy(proposed_action) THEN FALSE
    ELSE IF ~config.is_none THEN ConfigRequiresSme(config)
    ELSE TRUE

\* assign target that never consults the SME policy
assign_target_always_sme(review, data) == "pending_sme"

_get_assign_target_state(review, data) ==
    IF is_sme_required(review.proposed_action, data.proposed_action_config)
    THEN "pending_sme"
    ELSE "pending_decision"

\* the table with the approve rule registered for every source state
TRANSITIONS_approve_from_any ==
    << [from_state |-> "draft", action |-> "complete_checklist",
        to_state |-> "pending_assignment", guard |-> "completed_checklist"],
       [from_state |-> "pending_assignment", action |-> "assign",
        to_state |-> "CALL", guard |-> "none"],
       [from_state |-> "pending_sme", action |-> "submit_sme_review",
        to_state |-> "pending_decision", guard |-> "has_sme_recommendation"],
       [from_state |-> "*", action |-> "approve",
        to_state |-> "approved", guard |-> "decision_not_reject"],
       [from_state |-> "pending_decision", action |-> "reject",
        to_state |-> "rejected", guard |-> "decision_reject"],
       [from_state |-> "*", action |-> "cancel",
        to_state |-> "cancelled", guard |-> "none"] >>

\* the table with the cancel rule registered for draft instead of the wildcard
TRANSITIONS_cancel_from_draft ==
    << [from_state |-> "draft", action |-> "complete_checklist",
        to_state |-> "pending_assignment", guard |-> "completed_checklist"],
       [from_state |-> "pending_assignment", action |-> "assign",
        to_state |-> "CALL", guard |-> "none"],
       [from_state |-> "pending_sme", action |-> "submit_sme_review",
        to_state |-> "pending_decision", guard |-> "has_sme_recommendation"],
       [from_state |-> "pending_decision", action |-> "approve",
        to_state |-> "approved", guard |-> "decision_not_reject"],
       [from_state |-> "pending_decision", action |-> "reject",
        to_state |-> "rejected", guard |-> "decision_reject"],
       [from_state |-> "draft", action |-> "cancel",
        to_state |-> "cancelled", guard |-> "none"] >>

\* the table with a second rule for approve on pending_decision, listed last
TRANSITIONS_two_approve_rules ==
    << [from_state |-> "draft", action |-> "complete_checklist",
        to_state |-> "pending_assignment", guard |-> "completed_checklist"],
       [from_state |-> "pending_assignment", action |-> "assign",
        to_state |-> "CALL", guard |-> "none"],
       [from_state |-> "pending_sme", action |-> "submit_sme_review",
        to_state |-> "pending_decision", guard |-> "has_sme_recommendation"],
       [from_state |-> "pending_decision", action |-> "approve",
        to_state |-> "approved", guard |-> "decision_not_reject"],
       [from_state |-> "pending_decision", action |-> "reject",
        to_state |-> "rejected", guard |-> "decision_reject"],
       [from_state |-> "*", action |-> "cancel",
        to_state |-> "cancelled", guard |-> "none"],
       [from_state |-> "pending_decision", action |-> "approve",
        to_state |-> "rejected", guard |-> "none"] >>

\* to_state "CALL" is the callable _get_assign_target_state; guard "none" is no guard
TRANSITIONS ==
    << [from_state |-> "draft", action |-> "complete_checklist",
        to_state |-> "pending_assignment", guard |-> "completed_checklist"],
       [from_state |-> "pending_assignment", action |-> "assign",
        to_state |-> "CALL", guard |-> "none"],
       [from_state |-> "pending_sme", action |-> "submit_sme_review",
        to_state |-> "pending_decision", guard |-> "has_sme_recommendation"],
       [from_state |-> "pending_decision", action |-> "approve",
        to_state |-> "approved", guard |-> "decision_not_reject"],
       [from_state |-> "pending_decision", action |-> "reject",
        to_state |-> "rejected", guard |-> "decision_reject"],
       [from_state |-> "*", action |-> "cancel",
        to_state |-> "cancelled", guard |-> "none"] >>

\* guards with `"sme_recommendation" in data` dropped to a plain truth
GuardHoldsAnyRecommendation(guard, review, data) ==
    CASE guard = "none"                   -> TRUE
      [] guard = "completed_checklist"    -> review.completed_checklist
      [] guard = "has_sme_recommendation" -> TRUE
      [] guard = "decision_not_reject"    ->
            /\ DictGet(data, "final_decision") # None
            /\ DictGet(data, "final_decision") # "reject"
      [] guard = "decision_reject"        -> DictGet(data, "final_decision") = "reject"

\* guards whose approve rule lost its `is not None` test
GuardHoldsNoneApproves(guard, review, data) ==
    CASE guard = "none"                   -> TRUE
      [] guard = "completed_checklist"    -> review.completed_checklist
      [] guard = "has_sme_recommendation" -> DictGet(data, "sme_recommendation") # None
      [] guard = "decision_not_reject"    -> DictGet(data, "final_decision") # "reject"
      [] guard = "decision_reject"        -> DictGet(data, "final_decision") = "reject"

\* the guard lambdas of TRANSITIONS
GuardHolds(guard, review, data) ==
    CASE guard = "none"                   -> TRUE
      [] guard = "completed_checklist"    -> review.completed_checklist
      [] guard = "has_sme_recommendation" -> DictGet(data, "sme_recommendation") # None
      [] guard = "decision_not_reject"    ->
            /\ DictGet(data, "final_decision") # None
            /\ DictGet(data, "final_decision") # "reject"
      [] guard = "decision_reject"        -> DictGet(data, "final_decision") = "reject"

\* is_terminal that reads only the two decision states as terminal
is_terminal_decided_only(status) == status \in {"approved", "rejected"}

is_terminal(status) ==
    IF status \in ReviewState THEN STATES[status].terminal ELSE FALSE

can_edit(status) == ~is_terminal(status)

\* get_step_for_status without its except clause: the ValueError escapes
get_step_for_status_uncaught(status) ==
    IF status \in ReviewState THEN STATES[status].step ELSE "ValueError"

get_step_for_status(status) ==
    IF status \in ReviewState THEN STATES[status].step ELSE "general_info"

get_state_metadata(status) ==
    IF status \in ReviewState THEN STATES[status] ELSE None

\* get_workflow_state that looks at review_reason before completed_checklist
get_workflow_state_reason_first(review, has_assignments) ==
    LET sme_required == is_sme_required(review.proposed_action, NoConfig)
        step == IF review.status # "draft" THEN get_step_for_status(review.status)
                ELSE IF Truthy(review.review_reason) THEN "checklist"
                ELSE IF review.completed_checklist THEN "assignment"
                ELSE "general_info"
    IN  <<step, sme_required>>

\* ReviewStateMachine.get_workflow_state: <<current_step, sme_required>>
get_workflow_state(review, has_assignments) ==
    LET sme_required == is_sme_required(review.proposed_action, NoConfig)
        step == IF review.status # "draft" THEN get_step_for_status(review.status)
                ELSE IF review.completed_checklist THEN "assignment"
                ELSE IF Truthy(review.review_reason) THEN "checklist"
                ELSE "general_info"
    IN  <<step, sme_required>>

\* the for loop of get_next_status from rule i on: the first rule that matches wins
RECURSIVE ScanTransitions(_, _, _, _, _, _)
ScanTransitions(table, i, current_status, action, review, data) ==
    IF i > Len(table) THEN None
    ELSE
        LET t == table[i]
            state_match == t.from_state = "*" \/ t.from_state = current_status
        IN  IF ~state_match
                THEN ScanTransitions(table, i + 1, current_status, action, review, data)
            ELSE IF t.action # action
                THEN ScanTransitions(table, i + 1, current_status, action, review, data)
            ELSE IF t.guard # "none" /\ ~GuardHolds(t.guard, review, data)
                THEN ScanTransitions(table, i + 1, current_status, action, review, data)
            ELSE IF t.to_state = "CALL"
                THEN _get_assign_target_state(review, data)
            ELSE t.to_state

get_next_status(current_status, action, review, data) ==
    IF is_terminal(current_status) THEN None
    ELSE ScanTransitions(TRANSITIONS, 1, current_status, action, review, data)

\* `next_status or current`
OrCurrent(next_status, current) == IF next_status = None THEN current ELSE next_status

\* ReviewStateMachine.determine_status_after_step
SM_determine_status_after_step(step, review, update_data) ==
    LET current == review.status IN
    CASE step = "general_info" -> current
      [] step = "checklist" ->
            OrCurrent(get_next_status(current, "complete_checklist", review, update_data), current)
      [] step = "assignment" ->
            OrCurrent(get_next_status(current, "assign", review, update_data), current)
      [] step = "sme_investigation" ->
            IF Truthy(DictGet(update_data, "sme_recommendation"))
            THEN OrCurrent(get_next_status(current, "submit_sme_review", review, update_data), current)
            ELSE current
      [] step = "follow_up" -> current
      [] step = "final_decision" ->
            IF Truthy(DictGet(update_data, "final_decision"))
            THEN IF DictGet(update_data, "final_decision") = "reject"
                 THEN OrCurrent(get_next_status(current, "reject", review, update_data), current)
                 ELSE OrCurrent(get_next_status(current, "approve", review, update_data), current)
            ELSE current
      [] OTHER -> current


(***************************************************************************)
(* api/utils.py                                                            *)
(***************************************************************************)
_SME_REQUIRED_ACTIONS_FALLBACK ==
    {"keep_reclassify", "keep_adjust_levels", "run_down", "dispose"}

\* api/utils.py is_sme_required: the fallback is the hardcoded set
utils_is_sme_required(proposed_action, config) ==
    IF ~Truthy(proposed_action) THEN FALSE
    ELSE IF ~config.is_none THEN ConfigRequiresSme(config)
    ELSE proposed_action \in _SME_REQUIRED_ACTIONS_FALLBACK

\* api/utils.py calculate_workflow_state: <<step index, sme_required>>
calculate_workflow_state(review_db, has_assignments) ==
    LET sme_required == utils_is_sme_required(review_db.proposed_action, NoConfig)
        status == review_db.status
    IN  IF status \in {"approved", "rejected"} THEN <<6, sme_required>>
        ELSE IF status = "cancelled" THEN <<0, sme_required>>
        ELSE IF status = "pending_decision" THEN <<5, sme_required>>
        ELSE IF status = "pending_sme" THEN <<3, sme_required>>
        ELSE IF status = "pending_assignment" THEN <<2, sme_required>>
        ELSE IF review_db.completed_checklist THEN <<2, sme_required>>
        ELSE IF Truthy(review_db.review_reason) THEN <<1, sme_required>>
        ELSE <<0, sme_required>>

\* api/utils.py determine_status_after_step: the one the step-update handlers call
determine_status_after_step(step, review_db, update_data) ==
    CASE step = "general_info" -> "draft"
      [] step = "checklist" -> "pending_assignment"
      [] step = "assignment" -> "pending_sme"
      [] step = "sme_investigation" ->
            IF /\ Truthy(DictGet(update_data, "sme_responded_date"))
               /\ Truthy(DictGet(update_data, "sme_recommendation"))
            THEN "pending_decision"
            ELSE IF Truthy(DictGet(update_data, "sme_contacted_date"))
            THEN "pending_sme"
            ELSE review_db.status
      [] step = "follow_up" -> review_db.status
      [] step = "final_decision" ->
            IF Truthy(DictGet(update_data, "final_decision"))
            THEN IF DictGet(update_data, "final_decision") = "reject"
                 THEN "rejected"
                 ELSE "approved"
            ELSE review_db.status
      [] OTHER -> review_db.status

(***************************************************************************)
(* Bounds and input sets                                                   *)
(***************************************************************************)
NumMaterials == 2
\* rows of material_reviews a behaviour of Spec creates
MaxReviews == 1
\* rows of material_reviews a behaviour of SpecMaterial creates
MaxMaterialReviews == 2
\* fields one update request sets
MaxPayloadKeys == 1

Materials == 1..NumMaterials
ReviewIds == 1..(IF MaxReviews > MaxMaterialReviews THEN MaxReviews ELSE MaxMaterialReviews)

\* users that hold the endpoint permissions; "admin" passes check_user_is_admin
Users == {"admin", "u1", "u2"}
Admins == {"admin"}

ReviewStepEnum ==
    {"general_info", "checklist", "assignment", "sme_investigation",
     "follow_up", "final_decision"}

ProposedActions == {None, "dispose"}

\* whom the assignment step picks: no SME or u1; u1 or u2 as approver
SmeCandidates == {None, "u1"}
ApproverCandidates == {"u1", "u2"}

REQUIRED_CHECKLIST_FIELDS ==
    {"has_open_orders", "has_forecast_demand", "checked_alternate_plants",
     "contacted_procurement", "reviewed_bom_usage", "checked_supersession",
     "checked_historical_usage"}

\* the checklist keys a request carries: none, all but one required, all required
CheckSets ==
    {{}, REQUIRED_CHECKLIST_FIELDS \ {"has_open_orders"}, REQUIRED_CHECKLIST_FIELDS}

\* update_data = review_data.model_dump(exclude_unset=True), by key
\* the values a request gives to its checklist keys: has_open_orders stands for the
\* seven required booleans, open_order_numbers for the four optional context fields
NoChecklistValues == [has_open_orders |-> TRUE, open_order_numbers |-> Absent]

EmptyData ==
    [proposed_action |-> Absent, checks |-> {}, checklist_data |-> NoChecklistValues,
     sme_recommendation |-> Absent,
     final_decision |-> Absent, status |-> Absent,
     sme_responded_date |-> Absent, sme_contacted_date |-> Absent,
     requires_follow_up |-> Absent, next_review_date |-> Absent,
     follow_up_reason |-> Absent, review_frequency_weeks |-> Absent,
     proposed_action_config |-> NoConfig]

\* the keys of update_data
Keys(d) ==
    d.checks
    \cup {k \in {"proposed_action", "sme_recommendation", "final_decision", "status",
                 "sme_responded_date", "sme_contacted_date", "requires_follow_up",
                 "next_review_date", "follow_up_reason", "review_frequency_weeks"} :
            d[k] # Absent}

\* the values a request submits in its status field: one active status, one terminal
SubmittedStatuses == {"pending_decision", "approved"}

AllData ==
    [proposed_action : {Absent} \cup ProposedActions,
     checks : CheckSets,
     checklist_data : {NoChecklistValues},
     sme_recommendation : {Absent, None, "keep"},
     final_decision : {Absent, None, "reject", "approve"},
     status : {Absent} \cup SubmittedStatuses,
     sme_responded_date : {Absent, "date"},
     sme_contacted_date : {Absent, "date"},
     requires_follow_up : {Absent},
     next_review_date : {Absent},
     follow_up_reason : {Absent},
     review_frequency_weeks : {Absent},
     proposed_action_config : {NoConfig}]

\* number of different fields (the checklist counted once) a payload sets
FieldCount(d) ==
    Cardinality({k \in {"proposed_action", "sme_recommendation", "final_decision",
                        "status", "sme_responded_date", "sme_contacted_date",
                        "requires_follow_up", "next_review_date", "follow_up_reason",
                        "review_frequency_weeks"} :
                    d[k] # Absent})
    + (IF d.checks = {} THEN 0 ELSE 1)

ServicePayloads == {d \in AllData : FieldCount(d) <= MaxPayloadKeys}

\* MaterialReviewUpdate has no sme_responded_date / sme_contacted_date field
EndpointPayloads ==
    {d \in ServicePayloads :
        d.sme_responded_date = Absent /\ d.sme_contacted_date = Absent}

(***************************************************************************)
(* Tables                                                                  *)
(***************************************************************************)
NoAssignment == [user |-> None, status |-> None]

\* step updates that can be in flight at once
MaxInFlight == 2
Slots == 1..MaxInFlight
NoFlight == [review_id |-> 0]

\* before is the status the row had when the request arrived
\* notified tells whether notify_status_change was called
\* detail is the set of field names a 403 of the service gates lists, submitted the
\* keys the turned-down request carried
\* new_status is the status the step-update handler computed and committed
\* follow_up_keys is the follow-up keys an accepted step update carried
NoRequest == [op |-> "none", rid |-> 0, step |-> "none", before |-> "none",
              outcome |-> "none", table_ok |-> TRUE, notified |-> FALSE, detail |-> {}, submitted |-> {}, new_status |-> "none",
                follow_up_keys |-> {}]

SameMaterial(rs, r1, r2) == rs[r1].material_number = rs[r2].material_number

\* status.notin_(["declined", "reassigned"]) on the row of (review, type, user)
is_user_assigned(asg, review_id, user_id, assignment_type) ==
    /\ asg[<<review_id, assignment_type>>].user = user_id
    /\ asg[<<review_id, assignment_type>>].status \notin {"declined", "reassigned"}


(***************************************************************************)
(* services/review_service.py: field sets and gates                        *)
(***************************************************************************)
CHECKLIST_FIELDS ==
    REQUIRED_CHECKLIST_FIELDS
    \cup {"open_order_numbers", "forecast_next_12m", "alternate_plant_qty",
          "procurement_feedback"}

INITIATOR_FIELDS ==
    {"review_reason", "months_no_movement", "proposed_action",
     "proposed_safety_stock_qty", "proposed_unrestricted_qty",
     "business_justification"} \cup CHECKLIST_FIELDS

FOLLOW_UP_FIELDS ==
    {"requires_follow_up", "next_review_date", "follow_up_reason",
     "review_frequency_weeks"}

SME_RESTRICTED_FIELDS ==
    {"sme_recommendation", "sme_recommended_safety_stock_qty",
     "sme_recommended_unrestricted_qty", "sme_analysis",
     "alternative_applications", "risk_assessment"}

APPROVER_RESTRICTED_FIELDS ==
    FOLLOW_UP_FIELDS
    \cup {"final_decision", "final_safety_stock_qty", "final_unrestricted_qty",
          "final_notes", "estimated_savings", "implementation_date"}

get_editable_fields_for_status(status) ==
    IF status \in {"draft", "pending_assignment"} THEN INITIATOR_FIELDS
    ELSE IF status = "pending_sme" THEN SME_RESTRICTED_FIELDS
    ELSE IF status = "pending_decision"
        THEN FOLLOW_UP_FIELDS \cup APPROVER_RESTRICTED_FIELDS
    ELSE {}

\* TRUE when the gate lets the request through (no 403)
validate_step_locking(review_status, update_data) ==
    Keys(update_data) \ get_editable_fields_for_status(review_status) = {}

validate_field_permissions(asg, review_id, user_id, update_data) ==
    /\ (Keys(update_data) \cap SME_RESTRICTED_FIELDS # {}
            => is_user_assigned(asg, review_id, user_id, "sme"))
    /\ (Keys(update_data) \cap APPROVER_RESTRICTED_FIELDS # {}
            => is_user_assigned(asg, review_id, user_id, "approver"))

validate_can_edit(review) == ~is_terminal(review.status)

\* TRUE when no active review exists for the material (no 400)
validate_no_active_review(rs, material_number) ==
    ~\E r \in DOMAIN rs :
        /\ rs[r].material_number = material_number
        /\ rs[r].status \notin TERMINAL_STATES

\* save_checklist raises 400 unless every required boolean is in the payload
ChecklistComplete(update_data) == REQUIRED_CHECKLIST_FIELDS \subseteq update_data.checks

\* save_checklist that never looks for an existing row
save_checklist_insert_only(table, review_id, update_data) ==
    Append(table,
           [review_id |-> review_id,
            has_open_orders |-> update_data.checklist_data.has_open_orders,
            open_order_numbers |-> DictGet(update_data.checklist_data, "open_order_numbers")])

\* the upsert of save_checklist and of the checklist block of update_material_review:
\* the first row of the review takes the submitted values, or a row is created
save_checklist(table, review_id, update_data) ==
    LET checklist_data == update_data.checklist_data
        existing == {i \in DOMAIN table : table[i].review_id = review_id}
    IN  IF existing # {}
        THEN LET first == CHOOSE i \in existing : \A j \in existing : i <= j
             IN  [table EXCEPT ![first] =
                    [@ EXCEPT
                        !.has_open_orders = checklist_data.has_open_orders,
                        !.open_order_numbers =
                            IF checklist_data.open_order_numbers # Absent
                            THEN checklist_data.open_order_numbers ELSE @]]
        ELSE Append(table,
                [review_id |-> review_id,
                 has_open_orders |-> checklist_data.has_open_orders,
                 open_order_numbers |-> DictGet(checklist_data, "open_order_numbers")])

supersede_previous_approvals(rs, material_number, current_review_id) ==
    [r \in DOMAIN rs |->
        IF /\ rs[r].material_number = material_number
           /\ r # current_review_id
           /\ rs[r].status = "approved"
           /\ rs[r].is_superseded = FALSE
        THEN [rs[r] EXCEPT !.is_superseded = TRUE]
        ELSE rs[r]]

complete_assignments_for_review(asg, review_id, new_status) ==
    LET target_status == IF new_status = "cancelled" THEN "cancelled" ELSE "completed"
    IN  [k \in DOMAIN asg |->
            IF k[1] = review_id /\ asg[k].status \in {"pending", "accepted"}
            THEN [asg[k] EXCEPT !.status = target_status]
            ELSE asg[k]]

(***************************************************************************)
(* api/reviews.py helpers                                                  *)
(***************************************************************************)
\* admins bypass; otherwise an assignment that is not declined / reassigned
validate_assignee(asg, user_id, review_id, assignment_type) ==
    \/ user_id \in Admins
    \/ is_user_assigned(asg, review_id, user_id, assignment_type)

\* the existing-review query of create_material_review
NoActiveReview(rs, material_number) ==
    ~\E r \in DOMAIN rs :
        /\ rs[r].material_number = material_number
        /\ rs[r].status \notin {"approved", "rejected", "cancelled"}

\* the terminal-state block of update_material_review
EditAllowed(review_db) == review_db.status \notin {"approved", "rejected", "cancelled"}

\* for field, value in update_data.items(): setattr(review_db, field, value)
\* (checklist keys were popped; the date keys are no column the model keeps)
SetFields(review_db, update_data) ==
    [review_db EXCEPT
        !.proposed_action =
            IF update_data.proposed_action # Absent THEN update_data.proposed_action ELSE @,
        !.status =
            IF update_data.status # Absent THEN update_data.status ELSE @,
        !.requires_follow_up =
            IF update_data.requires_follow_up # Absent
            THEN update_data.requires_follow_up ELSE @,
        !.next_review_date =
            IF update_data.next_review_date # Absent
            THEN update_data.next_review_date ELSE @,
        !.follow_up_reason =
            IF update_data.follow_up_reason # Absent
            THEN update_data.follow_up_reason ELSE @,
        !.review_frequency_weeks =
            IF update_data.review_frequency_weeks # Absent
            THEN update_data.review_frequency_weeks ELSE @]

\* a clearing that runs before the submitted fields are written: they survive it
clear_follow_up_submitted_kept(review_db, update_data) ==
    IF update_data.requires_follow_up = "False"
    THEN [review_db EXCEPT
            !.next_review_date =
                IF update_data.next_review_date # Absent THEN @ ELSE None,
            !.follow_up_reason =
                IF update_data.follow_up_reason # Absent THEN @ ELSE None,
            !.review_frequency_weeks =
                IF update_data.review_frequency_weeks # Absent THEN @ ELSE None]
    ELSE review_db

\* if "requires_follow_up" in update_data and update_data["requires_follow_up"] is False
clear_follow_up(review_db, update_data) ==
    IF update_data.requires_follow_up = "False"
    THEN [review_db EXCEPT !.next_review_date = None,
                           !.follow_up_reason = None,
                           !.review_frequency_weeks = None]
    ELSE review_db

\* before -> after is no change or an edge of TRANSITIONS whose guard holds for this
\* review and data; the computed target of assign stands for both of its targets
TableAllows(before, after, review, data) ==
    \/ after = before
    \/ /\ ~is_terminal(before)
       /\ \E i \in DOMAIN TRANSITIONS :
            LET t == TRANSITIONS[i]
            IN  /\ t.from_state \in {"*", before}
                /\ \/ t.to_state = after
                   \/ t.to_state = "CALL" /\ after \in {"pending_sme", "pending_decision"}
                /\ GuardHolds(t.guard, review, data)


(***************************************************************************)
(* State after start-up: empty tables, nothing in flight                   *)
(***************************************************************************)
NoCall == [status |-> "draft", action |-> "cancel", completed_checklist |-> FALSE,
           proposed_action |-> None, sme_recommendation |-> Absent,
           final_decision |-> Absent, proposed_action_config |-> NoConfig,
           review_reason |-> None, has_assignments |-> FALSE]

NoResult == [op |-> "none", step |-> "none", value |-> None]

Init ==
    /\ reviews = << >>
    /\ assignments = [k \in ReviewIds \X {"sme", "approver"} |-> NoAssignment]
    /\ creating = [m \in Materials |-> 0]
    /\ last = NoRequest
    /\ call = NoCall
    /\ result = NoResult
    /\ review_checklist = << >>
    /\ inflight = [slot \in Slots |-> NoFlight]

RECURSIVE SumOver(_, _)
SumOver(f, S) ==
    IF S = {} THEN 0
    ELSE LET x == CHOOSE y \in S : TRUE IN f[x] + SumOver(f, S \ {x})

\* rows there are or will be once the create requests in flight have committed
Allocated == Len(reviews) + SumOver(creating, Materials)

(***************************************************************************)
(* Creation of a review: ReviewService.validate_no_active_review, then     *)
(* ReviewService.create_review.  Both await the database and nothing       *)
(* (no lock, no unique constraint of material_reviews) ties the query to   *)
(* the insert, so a second request can run its query in between: two       *)
(* steps.  create_material_review of api/reviews.py runs the same query    *)
(* (NoActiveReview) and then builds its row from review_data.sme_name and  *)
(* other attributes that MaterialReviewCreate does not declare; the row    *)
(* modelled here is the one create_review inserts.                         *)
(***************************************************************************)
begin_create_review(material_number, limit) ==
    /\ Allocated < limit
    /\ validate_no_active_review(reviews, material_number)
    /\ creating' = [creating EXCEPT ![material_number] = @ + 1]
    /\ UNCHANGED <<reviews, assignments, last, call, result, review_checklist, inflight>>

NewReview(material_number, proposed_action) ==
    [material_number |-> material_number, status |-> "draft",
     completed_checklist |-> FALSE, proposed_action |-> proposed_action,
     is_superseded |-> FALSE, requires_follow_up |-> None,
     next_review_date |-> None, follow_up_reason |-> None,
     review_frequency_weeks |-> None]

create_review(material_number, proposed_action) ==
    /\ creating[material_number] > 0
    /\ creating' = [creating EXCEPT ![material_number] = @ - 1]
    /\ reviews' = Append(reviews, NewReview(material_number, proposed_action))
    /\ last' = [op |-> "create_review", rid |-> Len(reviews) + 1,
                step |-> "none", before |-> "none", outcome |-> "ok",
                table_ok |-> TRUE, notified |-> FALSE, detail |-> {}, submitted |-> {}, new_status |-> "none",
                follow_up_keys |-> {}]
    /\ UNCHANGED <<assignments, call, result, review_checklist, inflight>>

(***************************************************************************)
(* api/reviews.py update_material_review                                   *)
(***************************************************************************)
\* a handler that notifies inside the transaction: the failure undoes the update
RolledBackByNotify(rs, committed) == rs

\* the table once notify_status_change has raised: the commit came before the call
AfterFailedNotify(rs, committed) == committed

\* the handler without `review_db.completed_checklist = True`
EndpointEditedFlagUnset(review_db, step, update_data) ==
    clear_follow_up(SetFields(review_db, update_data), update_data)

\* review_db as the handler holds it when it evaluates the status: the checklist
\* step has set completed_checklist, the submitted fields are written
EndpointEdited(review_db, step, update_data) ==
    clear_follow_up(
        SetFields(
            IF step = "checklist"
            THEN [review_db EXCEPT !.completed_checklist = TRUE]
            ELSE review_db,
            update_data),
        update_data)

update_material_review(user, review_id, step, update_data, notify_ok) ==
    /\ review_id \in DOMAIN reviews
    /\ step = "sme_investigation" => validate_assignee(assignments, user, review_id, "sme")
    /\ step = "final_decision" => validate_assignee(assignments, user, review_id, "approver")
    /\ EditAllowed(reviews[review_id])
    /\ step = "checklist" => ChecklistComplete(update_data)
    /\ LET review_db == EndpointEdited(reviews[review_id], step, update_data)
           old_status == review_db.status
           new_status == determine_status_after_step(step, review_db, update_data)
           committed == [reviews EXCEPT ![review_id] = [review_db EXCEPT !.status = new_status]]
           notified == (old_status = new_status) \/ notify_ok
       IN  /\ (old_status = new_status) => notify_ok
           /\ reviews' =
                IF ~notified THEN AfterFailedNotify(reviews, committed)
                ELSE IF new_status = "approved"
                THEN supersede_previous_approvals(
                        committed, committed[review_id].material_number, review_id)
                ELSE committed
           /\ last' = [op |-> "update_material_review", rid |-> review_id,
                       step |-> step, before |-> reviews[review_id].status,
                       outcome |-> IF notified THEN "ok" ELSE "notify_failed",
                       table_ok |-> TableAllows(reviews[review_id].status, new_status,
                                                review_db, update_data),
                       notified |-> old_status # new_status, detail |-> {}, submitted |-> {},
                       new_status |-> new_status,
                       follow_up_keys |-> Keys(update_data) \cap FOLLOW_UP_FIELDS]
    /\ review_checklist' =
        IF step = "checklist"
        THEN save_checklist(review_checklist, review_id, update_data)
        ELSE review_checklist
    /\ UNCHANGED <<assignments, creating, call, result, inflight>>

(***************************************************************************)
(* services/review_service.py ReviewService.update_review_step, run after  *)
(* validate_can_edit as the locking table says (review_service.py:379)     *)
(***************************************************************************)
ServiceEdited(review_db, step, update_data) ==
    clear_follow_up(
        SetFields(
            IF step = "checklist"
            THEN [review_db EXCEPT !.completed_checklist = TRUE]
            ELSE review_db,
            update_data),
        update_data)

\* handle_status_transition once notify_status_change has returned
TransitionSideEffects(rs, asg, review_id, new_status) ==
    [rs |-> IF new_status = "approved"
            THEN supersede_previous_approvals(rs, rs[review_id].material_number, review_id)
            ELSE rs,
     asg |-> IF new_status \in TERMINAL_STATES
             THEN complete_assignments_for_review(asg, review_id, new_status)
             ELSE asg]

update_review_step(user, review_id, step, update_data, notify_ok) ==
    /\ review_id \in DOMAIN reviews
    /\ validate_can_edit(reviews[review_id])
    /\ validate_step_locking(reviews[review_id].status, update_data)
    /\ validate_field_permissions(assignments, review_id, user, update_data)
    /\ step = "checklist" => ChecklistComplete(update_data)
    /\ LET review_db == ServiceEdited(reviews[review_id], step, update_data)
           old_status == review_db.status
           new_status == determine_status_after_step(step, review_db, update_data)
           committed == [reviews EXCEPT ![review_id] = [review_db EXCEPT !.status = new_status]]
           notified == (old_status = new_status) \/ notify_ok
           after == TransitionSideEffects(committed, assignments, review_id, new_status)
       IN  /\ (old_status = new_status) => notify_ok
           /\ reviews' = IF ~notified THEN AfterFailedNotify(reviews, committed)
                         ELSE IF old_status # new_status THEN after.rs
                         ELSE committed
           /\ assignments' =
                IF old_status # new_status /\ notified THEN after.asg ELSE assignments
           /\ last' = [op |-> "update_review_step", rid |-> review_id,
                       step |-> step, before |-> reviews[review_id].status,
                       outcome |-> IF notified THEN "ok" ELSE "notify_failed",
                       table_ok |-> TableAllows(reviews[review_id].status, new_status,
                                                review_db, update_data),
                       notified |-> old_status # new_status, detail |-> {}, submitted |-> {},
                       new_status |-> new_status,
                       follow_up_keys |-> Keys(update_data) \cap FOLLOW_UP_FIELDS]
    /\ review_checklist' =
        IF step = "checklist"
        THEN save_checklist(review_checklist, review_id, update_data)
        ELSE review_checklist
    /\ UNCHANGED <<creating, call, result, inflight>>

(***************************************************************************)
(* api/assignments.py create_review_assignments                            *)
(***************************************************************************)
\* create the row of a role, or hand an existing row to another user
UpsertAssignment(row, user_id) ==
    IF row.user = None THEN [user |-> user_id, status |-> "pending"]
    ELSE IF row.user # user_id THEN [user |-> user_id, status |-> "pending"]
    ELSE row

\* the status the handler writes, whatever the review's status is
StatusAfterAssignment(review, looked_up) ==
    LET config == IF Truthy(review.proposed_action) THEN looked_up ELSE NoConfig
    IN  IF is_sme_required(review.proposed_action, config)
        THEN "pending_sme"
        ELSE "pending_decision"

create_review_assignments(review_id, sme_user_id, approver_user_id, looked_up) ==
    /\ review_id \in DOMAIN reviews
    /\ assignments' =
        [assignments EXCEPT
            ![<<review_id, "sme">>] =
                IF sme_user_id # None THEN UpsertAssignment(@, sme_user_id) ELSE @,
            ![<<review_id, "approver">>] = UpsertAssignment(@, approver_user_id)]
    /\ reviews' = [reviews EXCEPT
            ![review_id].status = StatusAfterAssignment(reviews[review_id], looked_up)]
    /\ last' = [op |-> "create_review_assignments", rid |-> review_id,
                step |-> "none", before |-> reviews[review_id].status,
                outcome |-> "ok", table_ok |-> TRUE, notified |-> FALSE, detail |-> {}, submitted |-> {}, new_status |-> "none",
                follow_up_keys |-> {}]
    /\ UNCHANGED <<creating, call, result, review_checklist, inflight>>

(***************************************************************************)
(* api/reviews.py cancel_material_review                                   *)
(***************************************************************************)
CancelledStatus(review_db) == "cancelled"

cancel_material_review(review_id) ==
    /\ review_id \in DOMAIN reviews
    /\ reviews' = [reviews EXCEPT ![review_id].status = CancelledStatus(@)]
    /\ last' = [op |-> "cancel_material_review", rid |-> review_id,
                step |-> "none", before |-> reviews[review_id].status,
                outcome |-> "ok", table_ok |-> TRUE, notified |-> FALSE, detail |-> {}, submitted |-> {}, new_status |-> "none",
                follow_up_keys |-> {}]
    /\ UNCHANGED <<assignments, creating, call, result, review_checklist, inflight>>

Next ==
    \/ \E m \in Materials : begin_create_review(m, MaxReviews)
    \/ \E m \in Materials, pa \in ProposedActions : create_review(m, pa)
    \/ \E u \in Users, r \in ReviewIds, st \in ReviewStepEnum,
          d \in EndpointPayloads, ok \in BOOLEAN :
            update_material_review(u, r, st, d, ok)
    \/ \E u \in Users, r \in ReviewIds, st \in ReviewStepEnum,
          d \in ServicePayloads, ok \in BOOLEAN :
            update_review_step(u, r, st, d, ok)
    \/ \E r \in ReviewIds, sme \in SmeCandidates, ap \in ApproverCandidates,
          cfg \in Configs :
            create_review_assignments(r, sme, ap, cfg)
    \/ \E r \in ReviewIds : cancel_material_review(r)

Spec == Init /\ [][Next]_vars

(***************************************************************************)
(* SpecMaterial: two reviews, over one or two materials, taken to a final  *)
(* decision.  The requests are the ones a decision needs: reviews without  *)
(* a proposed action, the approver u1 and no SME, the final_decision step  *)
(* with a final_decision, by the admin through the endpoint and by the     *)
(* approver through the service.                                           *)
(***************************************************************************)
DecisionPayloads ==
    {d \in EndpointPayloads : Keys(d) = {"final_decision"} /\ Truthy(d.final_decision)}

NextMaterial ==
    \/ \E m \in Materials : begin_create_review(m, MaxMaterialReviews)
    \/ \E m \in Materials : create_review(m, None)
    \/ \E r \in ReviewIds, d \in DecisionPayloads, ok \in BOOLEAN :
            update_material_review("admin", r, "final_decision", d, ok)
    \/ \E r \in ReviewIds, d \in DecisionPayloads, ok \in BOOLEAN :
            update_review_step("u1", r, "final_decision", d, ok)
    \/ \E r \in ReviewIds : create_review_assignments(r, None, "u1", NoConfig)
    \/ \E r \in ReviewIds : cancel_material_review(r)

SpecMaterial == Init /\ [][NextMaterial]_vars

(***************************************************************************)
(* SpecSM: ReviewStateMachine as a pure function.  The start state draws   *)
(* the arguments of one evaluation; the actions evaluate.                  *)
(***************************************************************************)
\* "completed" is the status api/materials.py writes for uploaded reviews: a
\* status that is not in STATES
CallStatuses == ReviewState \cup {"completed"}

CallInputs ==
    [status : CallStatuses,
     action : Action,
     completed_checklist : BOOLEAN,
     proposed_action : {None, "", "keep_no_change", "dispose"},
     sme_recommendation : {Absent, None, "", "keep"},
     final_decision : {Absent, None, "", "reject", "approve"},
     proposed_action_config : Configs,
     review_reason : {None},
     has_assignments : {FALSE}]

\* the review argument of the evaluation
CallReview(c) ==
    [material_number |-> 1, status |-> c.status,
     completed_checklist |-> c.completed_checklist,
     proposed_action |-> c.proposed_action,
     is_superseded |-> FALSE, review_reason |-> c.review_reason]

\* the data / update_data argument of the evaluation
CallData(c) ==
    [EmptyData EXCEPT !.sme_recommendation = c.sme_recommendation,
                      !.final_decision = c.final_decision,
                      !.proposed_action_config = c.proposed_action_config]

InitSM ==
    /\ reviews = << >>
    /\ assignments = [k \in ReviewIds \X {"sme", "approver"} |-> NoAssignment]
    /\ creating = [m \in Materials |-> 0]
    /\ last = NoRequest
    /\ call \in CallInputs
    /\ result = NoResult
    /\ review_checklist = << >>
    /\ inflight = [slot \in Slots |-> NoFlight]

get_next_status_call ==
    /\ result' = [op |-> "get_next_status", step |-> "none",
                  value |-> get_next_status(call.status, call.action,
                                            CallReview(call), CallData(call))]
    /\ UNCHANGED <<reviews, assignments, creating, last, call, review_checklist, inflight>>

determine_status_after_step_call(step) ==
    /\ result' = [op |-> "determine_status_after_step", step |-> step,
                  value |-> SM_determine_status_after_step(
                                step, CallReview(call), CallData(call))]
    /\ UNCHANGED <<reviews, assignments, creating, last, call, review_checklist, inflight>>

\* is_terminal, can_edit, get_step_for_status, get_state_metadata of call.status
is_terminal_call ==
    /\ result' = [op |-> "is_terminal", step |-> "none", value |-> is_terminal(call.status)]
    /\ UNCHANGED <<reviews, assignments, creating, last, call, review_checklist, inflight>>

can_edit_call ==
    /\ result' = [op |-> "can_edit", step |-> "none", value |-> can_edit(call.status)]
    /\ UNCHANGED <<reviews, assignments, creating, last, call, review_checklist, inflight>>

get_step_for_status_call ==
    /\ result' = [op |-> "get_step_for_status", step |-> "none",
                  value |-> get_step_for_status(call.status)]
    /\ UNCHANGED <<reviews, assignments, creating, last, call, review_checklist, inflight>>

get_state_metadata_call ==
    /\ result' = [op |-> "get_state_metadata", step |-> "none",
                  value |-> get_state_metadata(call.status)]
    /\ UNCHANGED <<reviews, assignments, creating, last, call, review_checklist, inflight>>

\* services/workflow.py is_sme_required and api/utils.py is_sme_required
is_sme_required_call ==
    /\ result' = [op |-> "is_sme_required", step |-> "none",
                  value |-> is_sme_required(call.proposed_action,
                                            call.proposed_action_config)]
    /\ UNCHANGED <<reviews, assignments, creating, last, call, review_checklist, inflight>>

utils_is_sme_required_call ==
    /\ result' = [op |-> "utils_is_sme_required", step |-> "none",
                  value |-> utils_is_sme_required(call.proposed_action,
                                                  call.proposed_action_config)]
    /\ UNCHANGED <<reviews, assignments, creating, last, call, review_checklist, inflight>>

NextSM ==
    \/ get_next_status_call
    \/ \E st \in ReviewStepEnum : determine_status_after_step_call(st)
    \/ is_terminal_call
    \/ can_edit_call
    \/ get_step_for_status_call
    \/ get_state_metadata_call
    \/ is_sme_required_call
    \/ utils_is_sme_required_call

SpecSM == InitSM /\ [][NextSM]_vars

(***************************************************************************)
(* SpecGate: the two gates of ReviewService.update_review_step, with the   *)
(* requests they turn down.  Reviews are created, assigned and cancelled   *)
(* as in Spec; step updates go through the service and carry up to         *)
(* MaxGateKeys fields.                                                     *)
(***************************************************************************)
\* fields one update request to the service sets
MaxGateKeys == 2

GatePayloads ==
    {d \in AllData :
        /\ FieldCount(d) <= MaxGateKeys
        /\ d.proposed_action \in {Absent, "dispose"}
        /\ d.checks \in {{}, REQUIRED_CHECKLIST_FIELDS}
        /\ d.checks # {} => FieldCount(d) = 1
        /\ d.sme_recommendation \in {Absent, "keep"}
        /\ d.final_decision \in {Absent, "approve"}
        /\ d.status = Absent
        /\ d.sme_responded_date = Absent
        /\ d.sme_contacted_date = Absent}

\* the field names the HTTPException of the first failing gate lists
ForbiddenFields(asg, review_db, review_id, user_id, update_data) ==
    LET locked_fields ==
            Keys(update_data) \ get_editable_fields_for_status(review_db.status)
        sme_fields_in_update == Keys(update_data) \cap SME_RESTRICTED_FIELDS
        approver_fields_in_update == Keys(update_data) \cap APPROVER_RESTRICTED_FIELDS
    IN  IF locked_fields # {} THEN locked_fields
        ELSE IF /\ sme_fields_in_update # {}
                /\ ~is_user_assigned(asg, review_id, user_id, "sme")
        THEN sme_fields_in_update
        ELSE approver_fields_in_update

\* a mistaken rejection that first applies the fields the gates would allow
RejectedRowAllowedWritten(review_db, step, update_data) ==
    LET editable == get_editable_fields_for_status(review_db.status)
    IN  ServiceEdited(review_db, step,
            [update_data EXCEPT
                !.proposed_action = IF "proposed_action" \in editable THEN @ ELSE Absent,
                !.status = Absent])

\* the row when a gate raises: both gates run before the first assignment to review_db
RejectedRow(review_db, step, update_data) == review_db

update_review_step_rejected(user, review_id, step, update_data) ==
    /\ review_id \in DOMAIN reviews
    /\ ~(/\ validate_step_locking(reviews[review_id].status, update_data)
         /\ validate_field_permissions(assignments, review_id, user, update_data))
    /\ reviews' = [reviews EXCEPT ![review_id] = RejectedRow(@, step, update_data)]
    /\ last' = [op |-> "update_review_step", rid |-> review_id,
                step |-> step, before |-> reviews[review_id].status,
                outcome |-> "forbidden", table_ok |-> TRUE, notified |-> FALSE,
                detail |-> ForbiddenFields(assignments, reviews[review_id],
                                           review_id, user, update_data),
                submitted |-> Keys(update_data), new_status |-> "none",
                follow_up_keys |-> {}]
    /\ UNCHANGED <<assignments, creating, call, result, review_checklist, inflight>>

\* the materials SpecGate reviews; u1 is the approver of every assignment
GateMaterials == {m \in Materials : m < NumMaterials}

NextGate ==
    \/ \E m \in GateMaterials : begin_create_review(m, MaxReviews)
    \/ \E m \in GateMaterials, pa \in ProposedActions : create_review(m, pa)
    \/ \E u \in Users, r \in ReviewIds, st \in ReviewStepEnum,
          d \in GatePayloads, ok \in BOOLEAN :
            update_review_step(u, r, st, d, ok)
    \/ \E u \in Users, r \in ReviewIds, st \in ReviewStepEnum, d \in GatePayloads :
            update_review_step_rejected(u, r, st, d)
    \/ \E r \in ReviewIds, sme \in SmeCandidates :
            create_review_assignments(r, sme, "u1", NoConfig)
    \/ \E r \in ReviewIds : cancel_material_review(r)

SpecGate == Init /\ [][NextGate]_vars

(***************************************************************************)
(* SpecChecklist: the checklist step submitted again and again, for up to  *)
(* MaxMaterialReviews reviews.  The step updates are general_info, which   *)
(* takes the endpoint's review back to draft, and checklist, with the      *)
(* values of ChecklistValues, sent by the admin (neither step looks at     *)
(* the user).                                                              *)
(***************************************************************************)
ChecklistValues ==
    [has_open_orders : BOOLEAN, open_order_numbers : {Absent, "PO-1"}]

ChecklistPayloads ==
    {[EmptyData EXCEPT
        !.checks = REQUIRED_CHECKLIST_FIELDS
                   \cup (IF v.open_order_numbers # Absent
                         THEN {"open_order_numbers"} ELSE {}),
        !.checklist_data = v] : v \in ChecklistValues}

ChecklistSteps == {"general_info", "checklist"}

NextChecklist ==
    \/ \E m \in Materials : begin_create_review(m, MaxMaterialReviews)
    \/ \E m \in Materials : create_review(m, None)
    \/ \E u \in Admins, r \in ReviewIds, st \in ChecklistSteps,
          d \in ChecklistPayloads, ok \in BOOLEAN :
            update_material_review(u, r, st, d, ok)
    \/ \E u \in Admins, r \in ReviewIds, st \in ChecklistSteps,
          d \in ChecklistPayloads, ok \in BOOLEAN :
            update_review_step(u, r, st, d, ok)

SpecChecklist == Init /\ [][NextChecklist]_vars

(***************************************************************************)
(* SpecWorkflowState: the two functions that place a review on a step,     *)
(* evaluated on every status, both values of completed_checklist, an       *)
(* absent, empty or given review_reason and every proposed action.         *)
(***************************************************************************)
WorkflowStateInputs ==
    [status : CallStatuses,
     action : {"cancel"},
     completed_checklist : BOOLEAN,
     proposed_action : {None, "", "keep_no_change", "dispose"},
     sme_recommendation : {Absent},
     final_decision : {Absent},
     proposed_action_config : {NoConfig},
     review_reason : {None, "", "no movement"},
     has_assignments : BOOLEAN]

InitWorkflowState ==
    /\ reviews = << >>
    /\ assignments = [k \in ReviewIds \X {"sme", "approver"} |-> NoAssignment]
    /\ creating = [m \in Materials |-> 0]
    /\ last = NoRequest
    /\ call \in WorkflowStateInputs
    /\ result = NoResult
    /\ review_checklist = << >>
    /\ inflight = [slot \in Slots |-> NoFlight]

get_workflow_state_call ==
    /\ result' = [op |-> "get_workflow_state", step |-> "none",
                  value |-> get_workflow_state(CallReview(call), call.has_assignments)]
    /\ UNCHANGED <<reviews, assignments, creating, last, call, review_checklist, inflight>>

calculate_workflow_state_call ==
    /\ result' = [op |-> "calculate_workflow_state", step |-> "none",
                  value |-> calculate_workflow_state(CallReview(call),
                                                     call.has_assignments)]
    /\ UNCHANGED <<reviews, assignments, creating, last, call, review_checklist, inflight>>

NextWorkflowState ==
    \/ get_workflow_state_call
    \/ calculate_workflow_state_call

SpecWorkflowState == InitWorkflowState /\ [][NextWorkflowState]_vars

(***************************************************************************)
(* SpecFollowUp: the follow-up columns of one review.  The review is       *)
(* created without a proposed action, u1 becomes its approver, and the     *)
(* follow_up and final_decision steps are submitted with every choice of   *)
(* the four follow-up keys, through the endpoint and through the service.  *)
(***************************************************************************)
FollowUpPayloads ==
    {[EmptyData EXCEPT !.requires_follow_up = f, !.next_review_date = n,
                       !.follow_up_reason = w, !.review_frequency_weeks = k] :
        f \in {Absent, None, "True", "False"}, n \in {Absent, "2027-01-01"},
        w \in {Absent, "slow mover"}, k \in {Absent, "26"}}

FollowUpSteps == {"follow_up", "final_decision"}

NextFollowUp ==
    \/ \E m \in GateMaterials : begin_create_review(m, MaxReviews)
    \/ \E m \in GateMaterials : create_review(m, None)
    \/ \E r \in ReviewIds : create_review_assignments(r, None, "u1", NoConfig)
    \/ \E r \in ReviewIds, st \in FollowUpSteps, d \in FollowUpPayloads :
            update_material_review("u1", r, st, d, TRUE)
    \/ \E r \in ReviewIds, st \in FollowUpSteps, d \in FollowUpPayloads :
            update_review_step("u1", r, st, d, TRUE)

SpecFollowUp == Init /\ [][NextFollowUp]_vars

(***************************************************************************)
(* SpecRace: update_material_review as the two halves a concurrent request *)
(* can come between: the handler reads the review and runs its checks,     *)
(* then edits the loaded object and commits.  One review without a         *)
(* proposed action; the only requests are the admin's step updates of the  *)
(* checklist, assignment and final_decision steps, with no status key: an  *)
(* empty body, a final_decision, a complete checklist.                     *)
(***************************************************************************)
RacePayloads ==
    DecisionPayloads
    \cup {d \in ChecklistPayloads : d.checklist_data = NoChecklistValues}
    \cup {EmptyData}

RaceSteps == {"checklist", "assignment", "final_decision"}

\* the UPDATE the session flushes: the columns whose value differs from the loaded one
Flush(current, loaded, edited) ==
    [k \in DOMAIN current |-> IF edited[k] # loaded[k] THEN edited[k] ELSE current[k]]

\* reviews.py 446-465 (and 425-433, 491-508): the selects and the checks
read_update_material_review(slot, user, review_id, step, update_data) ==
    /\ inflight[slot] = NoFlight
    /\ review_id \in DOMAIN reviews
    /\ step = "sme_investigation" => validate_assignee(assignments, user, review_id, "sme")
    /\ step = "final_decision" => validate_assignee(assignments, user, review_id, "approver")
    /\ EditAllowed(reviews[review_id])
    /\ step = "checklist" => ChecklistComplete(update_data)
    /\ inflight' = [inflight EXCEPT ![slot] =
            [review_id |-> review_id, user |-> user, step |-> step,
             update_data |-> update_data, review_db |-> reviews[review_id],
             existing_checklist |->
                \E i \in DOMAIN review_checklist :
                    review_checklist[i].review_id = review_id]]
    /\ UNCHANGED <<reviews, assignments, creating, last, call, result, review_checklist>>

\* reviews.py 510-584, 649-664: the edits, the commit, the notification, the supersession
commit_update_material_review(slot, notify_ok) ==
    /\ inflight[slot] # NoFlight
    /\ LET review_id == inflight[slot].review_id
           step == inflight[slot].step
           update_data == inflight[slot].update_data
           loaded == inflight[slot].review_db
           review_db == EndpointEdited(loaded, step, update_data)
           old_status == review_db.status
           new_status == determine_status_after_step(step, review_db, update_data)
           committed == [reviews EXCEPT ![review_id] =
                            Flush(@, loaded, [review_db EXCEPT !.status = new_status])]
           notified == (old_status = new_status) \/ notify_ok
       IN  /\ (old_status = new_status) => notify_ok
           /\ reviews' =
                IF ~notified THEN AfterFailedNotify(reviews, committed)
                ELSE IF committed[review_id].status = "approved"
                THEN supersede_previous_approvals(
                        committed, committed[review_id].material_number, review_id)
                ELSE committed
           /\ review_checklist' =
                IF step # "checklist" THEN review_checklist
                ELSE IF inflight[slot].existing_checklist
                THEN save_checklist(review_checklist, review_id, update_data)
                ELSE save_checklist_insert_only(review_checklist, review_id, update_data)
           /\ last' = [op |-> "update_material_review", rid |-> review_id,
                       step |-> step, before |-> loaded.status,
                       outcome |-> IF notified THEN "ok" ELSE "notify_failed",
                       table_ok |-> TableAllows(loaded.status, new_status,
                                                review_db, update_data),
                       notified |-> old_status # new_status, detail |-> {},
                       submitted |-> {}, new_status |-> new_status,
                       follow_up_keys |-> Keys(update_data) \cap FOLLOW_UP_FIELDS]
    /\ inflight' = [inflight EXCEPT ![slot] = NoFlight]
    /\ UNCHANGED <<assignments, creating, call, result>>

NextRace ==
    \/ \E m \in GateMaterials : begin_create_review(m, MaxReviews)
    \/ \E m \in GateMaterials : create_review(m, None)
    \/ \E slot \in Slots, u \in Admins, r \in ReviewIds, st \in RaceSteps,
          d \in RacePayloads :
            read_update_material_review(slot, u, r, st, d)
    \/ \E slot \in Slots, ok \in BOOLEAN : commit_update_material_review(slot, ok)

SpecRace == Init /\ [][NextRace]_vars

(***************************************************************************)
(* Properties                                                              *)
(***************************************************************************)
StepUpdateOps == {"update_material_review", "update_review_step"}

\* C1: for a review whose status is approved, rejected or cancelled,
\* get_next_status returns None for each of the six actions, whatever the
\* review fields and the submitted data are.
C1_TerminalHasNoNextStatus ==
    (result.op = "get_next_status" /\ call.status \in {"approved", "rejected", "cancelled"})
        => result.value = None

\* cancel, which every other status answers with "cancelled", asked of an approved review
C1_Witness ==
    /\ result.op = "get_next_status"
    /\ call.status = "approved"
    /\ call.action = "cancel"
    /\ result.value = None

\* C2: once the persisted status of a review is approved, rejected or cancelled,
\* no later operation (step update, assignment creation, cancel request)
\* changes its status.
C2_TerminalIsAbsorbing ==
    [][\A r \in DOMAIN reviews :
            is_terminal(reviews[r].status) => reviews'[r].status = reviews[r].status]_vars

\* C3: for every step update the pair (status persisted before the request,
\* status persisted after it) is equal or an edge of the transition table whose
\* guard is satisfied, whatever the step name and the submitted data are.
C3_StatusChangesOnlyViaTable ==
    [][last'.op \in StepUpdateOps => last'.table_ok]_vars

\* C4: in every reachable state each material has at most one review whose
\* status is non-terminal, concurrent create requests included.
C4_OneActiveReviewPerMaterial ==
    \A m \in Materials :
        Cardinality({r \in DOMAIN reviews :
                        /\ reviews[r].material_number = m
                        /\ ~is_terminal(reviews[r].status)}) <= 1

\* C5: between requests each material has at most one review with status
\* approved and is_superseded = false.
C5_OneActiveApprovalPerMaterial ==
    \A m \in Materials :
        Cardinality({r \in DOMAIN reviews :
                        /\ reviews[r].material_number = m
                        /\ reviews[r].status = "approved"
                        /\ ~reviews[r].is_superseded}) <= 1

\* C6: a step update that approves review B sets is_superseded on every other
\* review of B's material that is approved and not superseded, leaves B's own
\* is_superseded false, and leaves is_superseded of every review of another
\* material and of every non-approved review of the same material as it was.
C6_ApprovalSupersedesOthers ==
    [][\A b \in DOMAIN reviews :
            (/\ last'.op \in StepUpdateOps
             /\ last'.rid = b
             /\ reviews[b].status # "approved"
             /\ reviews'[b].status = "approved")
            => /\ ~reviews'[b].is_superseded
               /\ \A a \in DOMAIN reviews \ {b} :
                    IF SameMaterial(reviews, a, b) /\ reviews[a].status = "approved"
                    THEN reviews'[a].is_superseded
                    ELSE reviews'[a].is_superseded = reviews[a].is_superseded]_vars

\* C7: a checklist step moves a draft review away from draft (to
\* pending_assignment) only with completed_checklist true on the review when the
\* status is evaluated; a submission that leaves the flag unset leaves the
\* status at draft.
C7_ChecklistAdvancesOnlyWithFlag ==
    [][\A r \in DOMAIN reviews :
            (/\ last'.op \in StepUpdateOps
             /\ last'.rid = r
             /\ last'.step = "checklist"
             /\ reviews[r].status = "draft"
             /\ reviews'[r].status # "draft")
            => /\ reviews'[r].completed_checklist
               /\ reviews'[r].status = "pending_assignment"]_vars

\* a draft review whose checklist step has just moved it to pending_assignment
C7_Witness ==
    /\ last.op \in StepUpdateOps
    /\ last.step = "checklist"
    /\ last.before = "draft"
    /\ reviews[last.rid].status = "pending_assignment"
    /\ reviews[last.rid].completed_checklist

\* C8: for a review in pending_assignment the assign action yields pending_sme
\* exactly when is_sme_required(review.proposed_action,
\* data["proposed_action_config"]) is true and pending_decision exactly when it
\* is false: the policy result alone decides the route.
C8_AssignRoutesByPolicy ==
    (result.op = "get_next_status" /\ call.status = "pending_assignment"
        /\ call.action = "assign")
    => /\ result.value \in {"pending_sme", "pending_decision"}
       /\ result.value = "pending_sme"
            <=> is_sme_required(call.proposed_action, call.proposed_action_config)

\* an action the fallback would send to an SME, routed past the SME by its config
C8_Witness ==
    /\ result.op = "get_next_status"
    /\ call.status = "pending_assignment"
    /\ call.action = "assign"
    /\ call.proposed_action = "dispose"
    /\ call.proposed_action_config =
            [is_none |-> FALSE, has_flag |-> TRUE, requires_sme |-> FALSE]
    /\ result.value = "pending_decision"

\* C9: submit_sme_review moves a pending_sme review to pending_decision only
\* when the submitted data holds a non-null sme_recommendation; with the key
\* absent or null the status stays pending_sme, in get_next_status and in
\* determine_status_after_step.
C9_SmeReviewNeedsRecommendation ==
    /\ (result.op = "get_next_status" /\ call.status = "pending_sme"
            /\ call.action = "submit_sme_review")
       => /\ result.value \in {None, "pending_decision"}
          /\ result.value = "pending_decision"
                <=> call.sme_recommendation \notin {Absent, None}
    /\ (result.op = "determine_status_after_step" /\ result.step = "sme_investigation"
            /\ call.status = "pending_sme")
       => /\ result.value \in {"pending_sme", "pending_decision"}
          /\ result.value = "pending_decision"
                => call.sme_recommendation \notin {Absent, None}

\* a null recommendation submitted for a pending_sme review: no next status
C9_Witness ==
    /\ result.op = "get_next_status"
    /\ call.status = "pending_sme"
    /\ call.action = "submit_sme_review"
    /\ call.sme_recommendation = None
    /\ result.value = None

\* C10: from pending_decision approve yields approved only when final_decision
\* is present and not "reject", reject yields rejected only when final_decision
\* is "reject"; every other combination of the two actions and final_decision
\* leaves the status unchanged.
C10_DecisionFollowsFinalDecision ==
    (result.op = "get_next_status" /\ call.status = "pending_decision")
    => /\ call.action = "approve" =>
            result.value = IF call.final_decision \notin {Absent, None, "reject"}
                           THEN "approved" ELSE None
       /\ call.action = "reject" =>
            result.value = IF call.final_decision = "reject" THEN "rejected" ELSE None

\* approve asked with final_decision "reject": the status is left alone
C10_Witness ==
    /\ result.op = "get_next_status"
    /\ call.status = "pending_decision"
    /\ call.action = "approve"
    /\ call.final_decision = "reject"
    /\ result.value = None

\* C11: for every (status, action) pair without a rule in the transition table,
\* the wildcard cancel rule counted as a rule of every non-terminal status,
\* get_next_status returns None whatever the review fields and the data are.
C11_NoRuleNoNextStatus ==
    (/\ result.op = "get_next_status"
     /\ <<call.status, call.action>> \notin
            {<<"draft", "complete_checklist">>, <<"pending_assignment", "assign">>,
             <<"pending_sme", "submit_sme_review">>, <<"pending_decision", "approve">>,
             <<"pending_decision", "reject">>}
     /\ ~(call.action = "cancel" /\ call.status \notin {"approved", "rejected", "cancelled"}))
    => result.value = None

\* approve asked of a draft review with a final_decision that would pass the guard
C11_Witness ==
    /\ result.op = "get_next_status"
    /\ call.status = "draft"
    /\ call.action = "approve"
    /\ call.final_decision = "approve"
    /\ result.value = None

\* C12: cancel is unguarded and applies from every non-terminal status:
\* get_next_status(s, cancel, review, data) is cancelled for s in draft,
\* pending_assignment, pending_sme, pending_decision, for any review and data.
C12_CancelFromEveryActiveStatus ==
    (/\ result.op = "get_next_status"
     /\ call.action = "cancel"
     /\ call.status \in {"draft", "pending_assignment", "pending_sme", "pending_decision"})
    => result.value = "cancelled"

\* cancel asked of a pending_sme review whose data holds nothing
C12_Witness ==
    /\ result.op = "get_next_status"
    /\ call.status = "pending_sme"
    /\ call.action = "cancel"
    /\ call.sme_recommendation = Absent
    /\ call.final_decision = Absent
    /\ result.value = "cancelled"

\* the handler serves the request (no 4xx) in the current state
EndpointAccepts(user, review_id, step, update_data) ==
    \E ok \in BOOLEAN : ENABLED update_material_review(user, review_id, step, update_data, ok)

ServiceAccepts(user, review_id, step, update_data) ==
    \E ok \in BOOLEAN : ENABLED update_review_step(user, review_id, step, update_data, ok)

\* the handler serves the request and the row's status is `status` afterwards
EndpointLeadsTo(user, review_id, step, update_data, status) ==
    \E ok \in BOOLEAN :
        ENABLED (/\ update_material_review(user, review_id, step, update_data, ok)
                 /\ reviews'[review_id].status = status)

ServiceLeadsTo(user, review_id, step, update_data, status) ==
    \E ok \in BOOLEAN :
        ENABLED (/\ update_review_step(user, review_id, step, update_data, ok)
                 /\ reviews'[review_id].status = status)

\* C13: a pending_sme review is never moved to pending_decision by an
\* sme_investigation submission that carries no non-null sme_recommendation,
\* however many such submissions are made.
C13_NoRecommendationNoDecisionStage ==
    \A r \in DOMAIN reviews :
        reviews[r].status = "pending_sme" =>
            \A u \in Users, d \in ServicePayloads :
                d.sme_recommendation \in {Absent, None} =>
                    /\ d \in EndpointPayloads =>
                        ~EndpointLeadsTo(u, r, "sme_investigation", d, "pending_decision")
                    /\ ~ServiceLeadsTo(u, r, "sme_investigation", d, "pending_decision")

\* C14: a step update that submits final_decision while the review is
\* pending_sme is rejected, whoever the acting user is.
C14_FinalDecisionLockedWhilePendingSme ==
    \A r \in DOMAIN reviews :
        reviews[r].status = "pending_sme" =>
            \A u \in Users, st \in ReviewStepEnum, d \in ServicePayloads :
                d.final_decision # Absent =>
                    /\ d \in EndpointPayloads => ~EndpointAccepts(u, r, st, d)
                    /\ ~ServiceAccepts(u, r, st, d)

\* C15: while a review is pending_sme, a step update that writes an SME-only
\* field is served only for a user holding an sme assignment on the review that
\* is neither declined nor reassigned; administrators are no exception.
C15_SmeFieldsNeedSmeAssignment ==
    \A r \in DOMAIN reviews :
        reviews[r].status = "pending_sme" =>
            \A u \in Users, st \in ReviewStepEnum, d \in ServicePayloads :
                (/\ Keys(d) \cap SME_RESTRICTED_FIELDS # {}
                 /\ ~is_user_assigned(assignments, r, u, "sme"))
                => /\ d \in EndpointPayloads => ~EndpointAccepts(u, r, st, d)
                   /\ ~ServiceAccepts(u, r, st, d)

\* C16: once a review is pending_sme or later no step update that writes an
\* initiator field (general-info or checklist field) is served, once it is
\* pending_decision or later none that writes an SME field, and in a terminal
\* status none that writes any field.
C16_EarlierPhasesImmutable ==
    \A r \in DOMAIN reviews, u \in Users, st \in ReviewStepEnum, d \in ServicePayloads :
        (\/ /\ reviews[r].status \in {"pending_sme", "pending_decision"} \cup TERMINAL_STATES
            /\ Keys(d) \cap INITIATOR_FIELDS # {}
         \/ /\ reviews[r].status \in {"pending_decision"} \cup TERMINAL_STATES
            /\ Keys(d) \cap SME_RESTRICTED_FIELDS # {}
         \/ /\ reviews[r].status \in TERMINAL_STATES
            /\ Keys(d) # {})
        => /\ d \in EndpointPayloads => ~EndpointAccepts(u, r, st, d)
           /\ ~ServiceAccepts(u, r, st, d)

\* C17: a step update that writes an approver-only field (follow-up or
\* final-decision field) is served only when the acting user holds an approver
\* assignment on the review that is neither declined nor reassigned.
C17_ApproverFieldsNeedApproverAssignment ==
    \A r \in DOMAIN reviews, u \in Users, st \in ReviewStepEnum, d \in ServicePayloads :
        (/\ Keys(d) \cap APPROVER_RESTRICTED_FIELDS # {}
         /\ \/ d \in EndpointPayloads /\ EndpointAccepts(u, r, st, d)
            \/ ServiceAccepts(u, r, st, d))
        => is_user_assigned(assignments, r, u, "approver")

\* C19: a step update dispatches the status-change notification exactly when
\* the status persisted after it differs from the status the review had before
\* the request: once for such a transition, never for an update that only
\* writes fields.
C19_NotifiedIffStatusChanged ==
    [][(last'.op \in StepUpdateOps /\ creating' = creating)
        => (last'.notified
                <=> reviews'[last'.rid].status # reviews[last'.rid].status)]_vars

\* C20: cancelling a review sets each of its assignments that is pending or
\* accepted to cancelled and leaves a declined assignment as it is.
C20_CancelCancelsAssignments ==
    [][(last'.op = "cancel_material_review" /\ creating' = creating)
        => \A t \in {"sme", "approver"} :
            LET before == assignments[<<last'.rid, t>>]
                after == assignments'[<<last'.rid, t>>]
            IN  /\ before.status \in {"pending", "accepted"} => after.status = "cancelled"
                /\ before.status = "declined" => after = before]_vars

\* C18: a step update that the status-lock gate or the role gate rejects
\* leaves the review row (its fields, its status, its completed_checklist flag),
\* the checklist table and the assignments exactly as they were, also when
\* only some of the submitted fields were disallowed.
C18_RejectionChangesNothing ==
    [][(last'.outcome = "forbidden" /\ creating' = creating)
        => /\ reviews' = reviews
           /\ assignments' = assignments
           /\ review_checklist' = review_checklist]_vars

\* a draft review turned down for a request that carried an editable field
\* (proposed_action or the checklist) next to a locked one
C18_Witness ==
    /\ last.outcome = "forbidden"
    /\ last.before = "draft"
    /\ last.detail # {}
    /\ (last.submitted \ last.detail) \cap INITIATOR_FIELDS # {}

\* C21: a step update that moves a review to approved or rejected sets every
\* pending or accepted assignment of that review to completed and leaves the
\* declined, reassigned and completed ones, and the assignments of every
\* other review, as they are.
C21_DecisionCompletesAssignments ==
    [][(/\ last'.op \in StepUpdateOps
        /\ last'.outcome # "forbidden"
        /\ creating' = creating
        /\ reviews'[last'.rid].status \in {"approved", "rejected"}
        /\ reviews[last'.rid].status \notin {"approved", "rejected"})
        => \A k \in DOMAIN assignments :
            assignments'[k] =
                IF k[1] = last'.rid /\ assignments[k].status \in {"pending", "accepted"}
                THEN [assignments[k] EXCEPT !.status = "completed"]
                ELSE assignments[k]]_vars

\* C22: a served general_info or follow_up step leaves the review's status as
\* it was before the request, for every status and every submitted data.
C22_InfoAndFollowUpKeepStatus ==
    [][(/\ last'.op \in StepUpdateOps
        /\ last'.outcome # "forbidden"
        /\ creating' = creating
        /\ last'.step \in {"general_info", "follow_up"})
        => reviews'[last'.rid].status = reviews[last'.rid].status]_vars

\* the handler serves the request and every way it ends leaves the row's status `status`
EndpointLeadsOnlyTo(user, review_id, step, update_data, status) ==
    /\ EndpointAccepts(user, review_id, step, update_data)
    /\ \A other \in ReviewState \ {status} :
            ~EndpointLeadsTo(user, review_id, step, update_data, other)

ServiceLeadsOnlyTo(user, review_id, step, update_data, status) ==
    /\ ServiceAccepts(user, review_id, step, update_data)
    /\ \A other \in ReviewState \ {status} :
            ~ServiceLeadsTo(user, review_id, step, update_data, other)

\* C23: a served sme_investigation step on a pending_sme review moves it to
\* pending_decision when the data holds a non-null sme_recommendation and
\* leaves it pending_sme when it holds none.
C23_SmeStepFollowsRecommendation ==
    \A r \in DOMAIN reviews, u \in Users, d \in ServicePayloads :
        reviews[r].status = "pending_sme" =>
            LET target == IF d.sme_recommendation \in {Absent, None}
                          THEN "pending_sme" ELSE "pending_decision"
            IN  /\ (d \in EndpointPayloads /\ EndpointAccepts(u, r, "sme_investigation", d))
                    => EndpointLeadsOnlyTo(u, r, "sme_investigation", d, target)
                /\ ServiceAccepts(u, r, "sme_investigation", d)
                    => ServiceLeadsOnlyTo(u, r, "sme_investigation", d, target)

\* C24: a served final_decision step on a pending_decision review ends in
\* rejected when final_decision is "reject", in approved for any other
\* non-null final_decision, and in pending_decision when the data holds none.
C24_FinalStepFollowsDecision ==
    \A r \in DOMAIN reviews, u \in Users, d \in ServicePayloads :
        reviews[r].status = "pending_decision" =>
            LET target == IF d.final_decision \in {Absent, None} THEN "pending_decision"
                          ELSE IF d.final_decision = "reject" THEN "rejected"
                          ELSE "approved"
            IN  /\ (d \in EndpointPayloads /\ EndpointAccepts(u, r, "final_decision", d))
                    => EndpointLeadsOnlyTo(u, r, "final_decision", d, target)
                /\ ServiceAccepts(u, r, "final_decision", d)
                    => ServiceLeadsOnlyTo(u, r, "final_decision", d, target)

\* C26: creating assignments changes the review's status only when the review
\* is in pending_assignment, to pending_sme or pending_decision as the SME
\* policy says (pending_decision when there is no proposed_action); a review
\* in any other status keeps its status.
C26_AssignOnlyFromPendingAssignment ==
    [][(last'.op = "create_review_assignments" /\ creating' = creating)
        => LET before == reviews[last'.rid]
               after == reviews'[last'.rid]
           IN  IF before.status = "pending_assignment"
               THEN /\ after.status \in {"pending_sme", "pending_decision"}
                    /\ ~Truthy(before.proposed_action) => after.status = "pending_decision"
               ELSE after.status = before.status]_vars

\* C27: for a status string outside the seven defined states is_terminal
\* returns false, can_edit returns true, get_step_for_status returns
\* "general_info", get_state_metadata returns None and get_next_status returns
\* None or a status, none of them raising; and can_edit is the negation of
\* is_terminal for every status.
C27_UnknownStatusFailsSafe ==
    /\ result.op = "can_edit" => result.value = ~is_terminal(call.status)
    /\ call.status \notin ReviewState =>
        /\ result.op = "is_terminal" => result.value = FALSE
        /\ result.op = "can_edit" => result.value = TRUE
        /\ result.op = "get_step_for_status" => result.value = "general_info"
        /\ result.op = "get_state_metadata" => result.value = None
        /\ result.op = "get_next_status" => result.value \in {None} \cup ReviewState

\* the step of the status "completed", which materials.py writes and STATES lacks
C27_Witness ==
    /\ call.status = "completed"
    /\ result.op = "get_step_for_status"
    /\ result.value = "general_info"

\* C28: is_sme_required, in workflow.py and in api/utils.py, returns false for
\* an empty or absent proposed_action whatever the config is, and for a
\* non-empty proposed_action with a config it returns the config's
\* requires_sme flag, false when the flag is missing, whatever the
\* proposed_action is.
C28_SmePolicyEmptyThenConfig ==
    result.op \in {"is_sme_required", "utils_is_sme_required"} =>
        LET config == call.proposed_action_config
        IN  /\ call.proposed_action \in {None, ""} => result.value = FALSE
            /\ (call.proposed_action \notin {None, ""} /\ ~config.is_none)
                => result.value = (config.has_flag /\ config.requires_sme)

\* no proposed_action, a config that asks for the SME: not required
C28_Witness ==
    /\ result.op = "is_sme_required"
    /\ call.proposed_action = None
    /\ ~call.proposed_action_config.is_none
    /\ call.proposed_action_config.requires_sme
    /\ result.value = FALSE

\* C30: when notify_status_change fails after a step update changed the
\* status, the review's persisted status is the new status the handler
\* computed: the failure takes nothing back.
C30_FailedNotifyKeepsStatus ==
    [][(/\ last'.op \in StepUpdateOps
        /\ last'.outcome = "notify_failed"
        /\ creating' = creating)
        => /\ last'.notified
           /\ reviews'[last'.rid].status = last'.new_status]_vars

\* the service moved a review to another status and the notification failed
C30_Witness ==
    /\ last.op = "update_review_step"
    /\ last.outcome = "notify_failed"
    /\ reviews[last.rid].status # last.before

\* the review has its flag set and exactly one checklist row, which holds the
\* values of update_data (a context field the request left out keeps the value
\* submitted for it before)
ChecklistSaved(rs, table, review_id, update_data) ==
    LET rows == {i \in DOMAIN table : table[i].review_id = review_id}
        checklist_data == update_data.checklist_data
    IN  /\ rs[review_id].completed_checklist
        /\ Cardinality(rows) = 1
        /\ \A i \in rows :
            /\ table[i].has_open_orders = checklist_data.has_open_orders
            /\ checklist_data.open_order_numbers # Absent
                => table[i].open_order_numbers = checklist_data.open_order_numbers

C29_TransitionFiresOnce ==
    [][(/\ \E slot \in Slots : inflight[slot] # NoFlight /\ inflight'[slot] = NoFlight
        /\ last'.notified)
        => /\ reviews[last'.rid].status = last'.before
           /\ reviews'[last'.rid].status # reviews[last'.rid].status]_vars

(***************************************************************************)
(* C31: a step update whose data sets requires_follow_up to false leaves   *)
(* next_review_date, follow_up_reason and review_frequency_weeks of the    *)
(* review null, whatever values the same data carries for those fields.    *)
(***************************************************************************)
FollowUpCleared(review_db) ==
    /\ review_db.next_review_date = None
    /\ review_db.follow_up_reason = None
    /\ review_db.review_frequency_weeks = None

C31_FollowUpClearedOnFalse ==
    [][\A r \in ReviewIds, st \in FollowUpSteps, d \in FollowUpPayloads :
        (/\ d.requires_follow_up = "False"
         /\ \/ update_material_review("u1", r, st, d, TRUE)
            \/ update_review_step("u1", r, st, d, TRUE))
        => FollowUpCleared(reviews'[r])]_vars

\* a review holding follow-up values has just been sent requires_follow_up = false
\* together with new values for the three fields, and holds none of them
C31_Witness ==
    /\ last.op \in StepUpdateOps
    /\ last.rid \in DOMAIN reviews
    /\ reviews[last.rid].requires_follow_up = "False"
    /\ FollowUpCleared(reviews[last.rid])
    /\ last.follow_up_keys = FOLLOW_UP_FIELDS

(***************************************************************************)
(* C32: get_workflow_state returns the registry step of the status:        *)
(* assignment for pending_assignment, sme_investigation for pending_sme,   *)
(* final_decision for pending_decision, approved and rejected,             *)
(* general_info for cancelled; for draft it returns assignment when        *)
(* completed_checklist is true, else checklist when review_reason is       *)
(* present, else general_info.                                             *)
(***************************************************************************)
C32_WorkflowStepOfStatus ==
    result.op = "get_workflow_state" =>
        result.value[1] =
            CASE call.status = "pending_assignment" -> "assignment"
              [] call.status = "pending_sme" -> "sme_investigation"
              [] call.status \in {"pending_decision", "approved", "rejected"} ->
                    "final_decision"
              [] call.status = "cancelled" -> "general_info"
              [] call.status = "draft" /\ call.completed_checklist -> "assignment"
              [] call.status = "draft" /\ ~call.completed_checklist
                    /\ call.review_reason \notin {None, ""} -> "checklist"
              [] call.status = "draft" /\ ~call.completed_checklist
                    /\ call.review_reason \in {None, ""} -> "general_info"
              [] OTHER -> result.value[1]

\* a draft with both the flag and a reason is placed on the assignment step
C32_Witness ==
    /\ result.op = "get_workflow_state"
    /\ call.status = "draft"
    /\ call.completed_checklist
    /\ call.review_reason = "no movement"
    /\ result.value[1] = "assignment"

(***************************************************************************)
(* C33: with the statuses ordered draft < pending_assignment < pending_sme *)
(* < pending_decision < approved, rejected, cancelled, no operation moves  *)
(* a review to a status of lower rank than the one it has.                 *)
(***************************************************************************)
StatusRank(status) ==
    CASE status = "draft" -> 0
      [] status = "pending_assignment" -> 1
      [] status = "pending_sme" -> 2
      [] status = "pending_decision" -> 3
      [] OTHER -> 4

C33_StatusNeverMovesBack ==
    [][\A r \in DOMAIN reviews :
            StatusRank(reviews'[r].status) >= StatusRank(reviews[r].status)]_vars

(***************************************************************************)
(* C34: a review in pending_sme has an sme assignment that is neither      *)
(* declined nor reassigned, so that some user passes the role gate of the  *)
(* SME fields; this holds after every assignment creation, the one         *)
(* submitted without an sme_user_id included.                              *)
(***************************************************************************)
HasActiveSme(asg, review_id) ==
    \E u \in Users : is_user_assigned(asg, review_id, u, "sme")

C34_PendingSmeHasActiveSme ==
    [][(last'.op = "create_review_assignments" /\ creating' = creating)
        => (reviews'[last'.rid].status = "pending_sme"
                => HasActiveSme(assignments', last'.rid))]_vars

(***************************************************************************)
(* C35: the sme_required flag that calculate_workflow_state and            *)
(* get_workflow_state report for a review agrees with the routing of the   *)
(* assignment step: a review routed to pending_sme is reported with        *)
(* sme_required true, one routed to pending_decision with false, for every *)
(* proposed_action and every result of the configuration lookup.           *)
(***************************************************************************)
C35_ReportedSmeFlagMatchesRouting ==
    [][(last'.op = "create_review_assignments" /\ creating' = creating)
        => LET review == reviews'[last'.rid]
               routed_to_sme == (review.status = "pending_sme")
           IN  /\ calculate_workflow_state(review, TRUE)[2] = routed_to_sme
               /\ get_workflow_state(review, TRUE)[2] = routed_to_sme]_vars

(***************************************************************************)
(* C36: in every reachable state a review in draft has completed_checklist *)
(* false: the checklist step that sets the flag moves the review out of    *)
(* draft in the same update and nothing brings a review with the flag set  *)
(* back to draft.                                                          *)
(***************************************************************************)
C36_DraftHasNoCompletedChecklist ==
    \A r \in DOMAIN reviews :
        reviews[r].status = "draft" => ~reviews[r].completed_checklist

(***************************************************************************)
(* C37: in every reachable state a review with is_superseded true has      *)
(* status approved: the flag is set on approved reviews only and a         *)
(* superseded review does not leave approved.                              *)
(***************************************************************************)
C37_SupersededIsApproved ==
    \A r \in DOMAIN reviews :
        reviews[r].is_superseded => reviews[r].status = "approved"

(***************************************************************************)
(* C38: when update_review_step makes a review approved and the dispatch   *)
(* of the notification for that change fails, handle_status_transition     *)
(* still supersedes the other approved reviews of the material and still   *)
(* completes the pending and accepted assignments of the review.           *)
(***************************************************************************)
C38_SideEffectsSurviveFailedNotify ==
    [][\A b \in DOMAIN reviews :
            (/\ last'.op = "update_review_step"
             /\ last'.rid = b
             /\ last'.outcome = "notify_failed"
             /\ creating' = creating
             /\ reviews[b].status # "approved"
             /\ reviews'[b].status = "approved")
            => /\ \A a \in DOMAIN reviews \ {b} :
                    (SameMaterial(reviews, a, b) /\ reviews[a].status = "approved")
                        => reviews'[a].is_superseded
               /\ \A k \in DOMAIN assignments :
                    k[1] = b => assignments'[k].status \notin {"pending", "accepted"}]_vars

(***************************************************************************)
(* C39: a review becomes approved or rejected only from pending_decision   *)
(* and only by a final_decision step: the status just before approved or   *)
(* rejected is pending_decision, so a final_decision step on a draft,      *)
(* pending_assignment or pending_sme review leaves the status unchanged.   *)
(***************************************************************************)
C39_DecidedOnlyFromPendingDecision ==
    [][\A r \in DOMAIN reviews :
            (/\ reviews'[r].status \in {"approved", "rejected"}
             /\ reviews'[r].status # reviews[r].status)
            => /\ reviews[r].status = "pending_decision"
               /\ last'.op \in StepUpdateOps
               /\ last'.rid = r
               /\ last'.step = "final_decision"]_vars

(***************************************************************************)
(* C40: the transition table is deterministic: for every status and action *)
(* at most one rule of TRANSITIONS matches, the wildcard rule counted, so  *)
(* get_next_status returns the same result when the rules are listed in    *)
(* the opposite order.                                                     *)
(***************************************************************************)
MatchingRules(current_status, action) ==
    {i \in DOMAIN TRANSITIONS :
        /\ TRANSITIONS[i].from_state \in {"*", current_status}
        /\ TRANSITIONS[i].action = action}

ReversedTable(table) == [i \in 1..Len(table) |-> table[Len(table) + 1 - i]]

C40_TransitionTableDeterministic ==
    result.op = "get_next_status" =>
        /\ Cardinality(MatchingRules(call.status, call.action)) <= 1
        /\ result.value =
            IF is_terminal(call.status) THEN None
            ELSE ScanTransitions(ReversedTable(TRANSITIONS), 1, call.status,
                                 call.action, CallReview(call), CallData(call))

\* an approval of a pending_decision review: exactly one rule matches and fires
C40_Witness ==
    /\ result.op = "get_next_status"
    /\ call.status = "pending_decision"
    /\ call.action = "approve"
    /\ Cardinality(MatchingRules(call.status, call.action)) = 1
    /\ result.value = "approved"

====
